---- MODULE Spec2Model ----
(***************************************************************************)
(* webscraper-cli: the site-discovery engine (core/crawler.py, the SiteMap *)
(* of cli/display.py), the configuration (utils/config.py) and the         *)
(* path-processing scheduler (core/scraper.py), as a state machine of the  *)
(* coroutines the asyncio event loop interleaves at their await points.    *)
(***************************************************************************)
EXTENDS Integers, Sequences, FiniteSets, TLC

\* ------------------------------------------------------------------ bounds
\* largest max_depth a run is configured with, beside the rejected 0 and 11
MaxDepthTried == 2
\* largest max_links_per_page a run is configured with
MaxLinksTried == 2
\* largest max_concurrent_requests a run is configured with
MaxConcTried == 2
\* longest selected list handed to process_paths
MaxSelected == 6
\* most files one page scan downloads
MaxFilesPerPage == 1
\* most discoveries run on one WebCrawler
MaxSessions == 2

\* ------------------------------------------------------- program constants
\* validate_max_depth: the accepted range of max_depth
MinDepth == 1
MaxDepth == 10
\* validate_crawl_delay: the largest accepted crawl_delay
MaxCrawlDelay == 60
\* process_paths: batch_size
batch_size == 5

\* ------------------------------------------------------------ the web site
ROOT == "A"
URLS == {"A", "B", "C", "D", "U", "S", "X"}

\* the URLs _is_same_domain is tried on: those of the sites, one with a
\* port (P), two under a two-label public suffix (K, L), a one-label host (H)
DomainURLS == URLS \cup {"P", "K", "L", "H"}

\* urlparse(url).netloc, as its dot-separated labels
Netloc(u) ==
  CASE u = "U" -> <<"EX", "com">>
    [] u = "S" -> <<"sub", "ex", "com">>
    [] u = "X" -> <<"other", "org">>
    [] u = "P" -> <<"ex", "com:8080">>
    [] u = "K" -> <<"a", "co", "uk">>
    [] u = "L" -> <<"b", "co", "uk">>
    [] u = "H" -> <<"localhost">>
    [] OTHER -> <<"ex", "com">>

\* str.lower() on one label
Lower(label) == IF label = "EX" THEN "ex" ELSE IF label = "SUB" THEN "sub" ELSE label

LowerAll(parts) == [i \in 1..Len(parts) |-> Lower(parts[i])]

\* get_main_domain: the last two labels
get_main_domain(parts) ==
  IF Len(parts) >= 2 THEN SubSeq(parts, Len(parts) - 1, Len(parts)) ELSE parts

is_same_domain_any(allow_subdomains, url1, url2) == TRUE

\* WebCrawler._is_same_domain
is_same_domain(allow_subdomains, url1, url2) ==
  LET domain1 == LowerAll(Netloc(url1))
      domain2 == LowerAll(Netloc(url2))
  IN  IF allow_subdomains
        THEN get_main_domain(domain1) = get_main_domain(domain2)
        ELSE domain1 = domain2

\* what a successful fetch of a page yields: its title, the valid absolute
\* URLs of its anchors in markup order, and its downloadable file URLs
Page(t, a, f) == [title |-> t, anchors |-> a, files |-> f]
NoPage == Page("", <<>>, <<>>)

\* the scenario of the specification: A -> B, C and B -> D
SiteTree ==
  [u \in URLS |->
     CASE u = "A" -> Page("home", <<"B", "C">>, <<"f.pdf">>)
       [] u = "B" -> Page("b", <<"D">>, <<>>)
       [] OTHER -> NoPage]

\* self-links, reciprocal links, a repeated anchor and an off-domain link
SiteCycle ==
  [u \in URLS |->
     CASE u = "A" -> Page("home", <<"B", "B", "C", "X">>, <<>>)
       [] u = "B" -> Page("b", <<"B", "A", "C">>, <<"f.pdf", "f.pdf">>)
       [] u = "C" -> Page("c", <<"X", "B", "D">>, <<>>)
       [] u = "X" -> Page("x", <<"A">>, <<>>)
       [] OTHER -> NoPage]

\* two branches that each fan out, a subdomain and an upper-case host
SiteFan ==
  [u \in URLS |->
     CASE u = "A" -> Page("home", <<"B", "C">>, <<>>)
       [] u = "B" -> Page("b", <<"D", "S">>, <<>>)
       [] u = "C" -> Page("c", <<"U", "D">>, <<>>)
       [] u = "S" -> Page("s", <<"X">>, <<>>)
       [] OTHER -> NoPage]

\* every page links to every other: each URL is reachable along several
\* paths, at the same depth and at different depths
SiteDense ==
  [u \in URLS |->
     CASE u = "A" -> Page("home", <<"B", "C", "D">>, <<>>)
       [] u = "B" -> Page("b", <<"C", "D", "A">>, <<>>)
       [] u = "C" -> Page("c", <<"D", "B", "A">>, <<"f.pdf">>)
       [] u = "D" -> Page("d", <<"A", "B", "C">>, <<>>)
       [] OTHER -> NoPage]

\* a page reached from the root by one link and by two: A -> B, C,
\* B -> C, C -> D
SiteShortcut ==
  [u \in URLS |->
     CASE u = "A" -> Page("home", <<"B", "C">>, <<>>)
       [] u = "B" -> Page("b", <<"C">>, <<>>)
       [] u = "C" -> Page("c", <<"D">>, <<>>)
       [] u = "D" -> Page("d", <<>>, <<"f.pdf">>)
       [] OTHER -> NoPage]

Sites == {SiteTree, SiteCycle, SiteFan, SiteDense, SiteShortcut}

\* _get_file_extension(url)[1:] of the file URLs above
FileType(f) == IF f = "f.pdf" THEN "pdf" ELSE ""

VARIABLES
  phase,         \* "init", "rejected", "ready", "crawling", "returned"
  config,        \* the Config object
  web,           \* the site served to the crawler
  visited_urls,  \* WebCrawler.visited_urls
  site_map,      \* SiteMap: pages, links, files
  calls,         \* the _crawl_recursive coroutines, by their path from the root,
                 \* each with the outcome of its fetch
  fetched,       \* per URL, how many times session.get was issued for it
  session,       \* how many times discover_site_structure was called
  sched,         \* process_paths: "idle", "gather", "pause", "returned", "raised"
  selected_paths,\* the list handed to process_paths
  batch_i,       \* process_paths: the loop variable i, as a 1-based index
  ptasks,        \* per list entry, its _process_single_path coroutine: its
                 \* position, how often its body was entered, and what its
                 \* render and its file scan came to
  result,        \* the ScrapingResult
  progress_calls,\* how many times progress_callback was invoked
  sessions,      \* the aiohttp session of the WebScraper and the one of its
                 \* FileDownloader: "None", "open" or "closed"
  dom            \* a call of _is_same_domain: its arguments and its answers

crawlVars == <<visited_urls, site_map, calls, fetched, session>>
procVars == <<sched, selected_paths, batch_i, ptasks, result, progress_calls, sessions>>
libVars == <<dom>>
vars == <<phase, config, web, libVars, crawlVars, procVars>>

\* ------------------------------------------------------------------ Config
DefaultConfig ==
  [max_depth |-> 3, max_links_per_page |-> 50, max_concurrent_requests |-> 5,
   crawl_delay |-> 1, allow_subdomains |-> TRUE]

validate_max_depth_lax(v) == v <= MaxDepth

\* Config.validate_max_depth: TRUE iff no ValueError
validate_max_depth(v) == ~(v < MinDepth) /\ ~(v > MaxDepth)

\* Config.validate_crawl_delay
validate_crawl_delay(v) == ~(v < 0) /\ ~(v > MaxCrawlDelay)

\* Config(...): the field validators that run on construction
ValidConfig(c) == validate_max_depth(c.max_depth) /\ validate_crawl_delay(c.crawl_delay)

\* ----------------------------------------------------------------- SiteMap
Range(s) == {s[i] : i \in 1..Len(s)}

\* SiteMap(root_url); `order` is the order in which the keys of the dict
\* `pages` were inserted, which is the order the dict iterates in
NewSiteMap == [pages |-> <<>>, order |-> <<>>, links |-> <<>>, files |-> <<>>]

\* the keys of `pages` after self.pages[url] = ...: a new key goes last
KeyOrder(sm, url) == IF url \in DOMAIN sm.pages THEN sm.order ELSE Append(sm.order, url)

\* the map m with an empty list under key k when k is not yet a key
WithKey(m, k) == IF k \in DOMAIN m THEN m ELSE m @@ (k :> <<>>)

add_page_deeper(sm, url, title, depth) ==
  [pages |-> [u \in DOMAIN sm.pages \cup {url} |->
                IF u = url THEN [title |-> title, depth |-> depth + 1, processed |-> FALSE]
                ELSE sm.pages[u]],
   order |-> KeyOrder(sm, url),
   links |-> WithKey(sm.links, url),
   files |-> WithKey(sm.files, url)]

\* SiteMap.add_page
add_page(sm, url, title, depth) ==
  [pages |-> [u \in DOMAIN sm.pages \cup {url} |->
                IF u = url THEN [title |-> title, depth |-> depth, processed |-> FALSE]
                ELSE sm.pages[u]],
   order |-> KeyOrder(sm, url),
   links |-> WithKey(sm.links, url),
   files |-> WithKey(sm.files, url)]

add_link_both_keys(sm, from_url, to_url) ==
  LET ls == WithKey(WithKey(sm.links, from_url), to_url)
  IN  [sm EXCEPT !.links =
         IF to_url \in Range(ls[from_url]) THEN ls
         ELSE [ls EXCEPT ![from_url] = Append(@, to_url)]]

\* SiteMap.add_link
add_link(sm, from_url, to_url) ==
  LET ls == WithKey(sm.links, from_url)
  IN  [sm EXCEPT !.links =
         IF to_url \in Range(ls[from_url]) THEN ls
         ELSE [ls EXCEPT ![from_url] = Append(@, to_url)]]

\* SiteMap.add_file
add_file(sm, page_url, file_url, file_type) ==
  LET fs == WithKey(sm.files, page_url)
  IN  [sm EXCEPT !.files =
         [fs EXCEPT ![page_url] = Append(@, [url |-> file_url, type |-> file_type])]]

LinkTargets(sm) == UNION {Range(sm.links[p]) : p \in DOMAIN sm.links}

RECURSIVE SeqOf(_)
SeqOf(S) == IF S = {} THEN <<>>
            ELSE LET x == CHOOSE y \in S : TRUE IN <<x>> \o SeqOf(S \ {x})

get_all_paths_and_targets(sm) == sm.order \o SeqOf(LinkTargets(sm) \ DOMAIN sm.pages)

\* SiteMap.get_all_paths: list(self.pages.keys())
get_all_paths(sm) == sm.order

\* ------------------------------------------------------------- WebCrawler
Min(a, b) == IF a < b THEN a ELSE b
Max(a, b) == IF a > b THEN a ELSE b

\* list(dict.fromkeys(links)): first occurrences, in order
RECURSIVE Dedup(_)
Dedup(s) ==
  IF s = <<>> THEN <<>>
  ELSE LET r == Dedup(SubSeq(s, 1, Len(s) - 1))
       IN  IF s[Len(s)] \in Range(r) THEN r ELSE Append(r, s[Len(s)])

Reverse(s) == [i \in 1..Len(s) |-> s[Len(s) + 1 - i]]

extract_links_reversed(anchors) == Reverse(Dedup(anchors))

\* WebCrawler._extract_links on the page's anchors: list(dict.fromkeys(links))
\* keeps the first occurrence of each link, in order
extract_links(anchors) == Dedup(anchors)

\* WebCrawler._extract_files on the page's file references
extract_files(fileUrls) ==
  [i \in 1..Len(fileUrls) |-> [url |-> fileUrls[i], type |-> FileType(fileUrls[i])]]

SliceAll(s, n) == s

\* the Python slice s[:n]
Slice(s, n) ==
  IF n >= 0 THEN SubSeq(s, 1, Min(n, Len(s)))
  ELSE SubSeq(s, 1, Max(Len(s) + n, 0))

\* for file_info in result.files: site_map.add_file(...)
RECURSIVE AddFiles(_, _, _)
AddFiles(sm, url, fs) ==
  IF fs = <<>> THEN sm
  ELSE AddFiles(add_file(sm, url, fs[1].url, fs[1].type), url, Tail(fs))

\* for link_url in result.links[:max_links_per_page]: site_map.add_link(...)
RECURSIVE AddLinks(_, _, _)
AddLinks(sm, url, ls) ==
  IF ls = <<>> THEN sm
  ELSE AddLinks(add_link(sm, url, ls[1]), url, Tail(ls))

AlreadyVisitedNever(url, visited) == FALSE

\* `if url in self.visited_urls`
AlreadyVisited(url, visited) == url \in visited

\* the children of a call: the coroutines its gather awaits
Children(id) ==
  {c \in DOMAIN calls : Len(c) = Len(id) + 1 /\ SubSeq(c, 1, Len(id)) = id}

HoldingForever(pc) == pc \in {"sleep", "fetch", "gather", "done"}

\* positions of _limited_crawl inside `async with semaphore`
Holding(pc) == pc \in {"sleep", "fetch", "gather"}

\* the semaphore a call created for its children: permits in use
InUse(id) == Cardinality({c \in Children(id) : Holding(calls[c].pc)})

\* the session.get calls in flight
InFlight == {c \in DOMAIN calls : calls[c].pc = "fetch"}

EnterNoDelay(url, depth) ==
  IF depth > config.max_depth THEN "done"
  ELSE IF AlreadyVisited(url, visited_urls) THEN "done"
  ELSE "fetch"

\* _crawl_recursive(url, site_map, depth) up to its first await, for the
\* coroutine id: the position it reaches
Enter(url, depth) ==
  IF depth > config.max_depth THEN "done"
  ELSE IF AlreadyVisited(url, visited_urls) THEN "done"
  ELSE IF depth > 0 THEN "sleep"
  ELSE "fetch"

Issue(url) == [fetched EXCEPT ![url] = @ + 1]

ClaimNever(url, pc, visited) == visited

ClaimLate(url, pc, visited) == IF pc = "fetch" THEN visited \cup {url} ELSE visited

\* `self.visited_urls.add(url)`, reached unless the call returned early
Claim(url, pc, visited) == IF pc = "done" THEN visited ELSE visited \cup {url}

\* how the fetch of a call ended: status 200 and nothing raised, or not
Outcome(ok) == IF ok THEN "ok" ELSE "failed"

crawl_result_success_always(ok) == TRUE

\* CrawlResult.success as _crawl_single_page sets it: True iff the response
\* had status 200 and nothing raised
crawl_result_success(ok) == ok

\* ScrapingResult(output_dir=...)
NewResult == [pages_converted |-> 0, files_downloaded |-> 0, errors |-> <<>>]

\* WebScraper.__init__: its own session is None, and so is the session of
\* the FileDownloader it constructs
NoSessions == [scraper |-> "None", downloader |-> "None"]

\* WebScraper.__aenter__: a ClientSession for the scraper itself; the
\* FileDownloader is not entered
aenter(s) == [s EXCEPT !.scraper = "open"]

\* WebScraper.__aexit__: closes the scraper's session if there is one
aexit(s) == [s EXCEPT !.scraper = IF @ = "None" THEN "None" ELSE "closed"]

\* no call of _is_same_domain under study
NoQuestion ==
  [pc |-> "idle", url1 |-> ROOT, url2 |-> ROOT, url3 |-> ROOT,
   same11 |-> FALSE, same12 |-> FALSE, same21 |-> FALSE, same23 |-> FALSE,
   same13 |-> FALSE]

Init ==
  /\ phase = "init"
  /\ config = DefaultConfig
  /\ web \in Sites
  /\ visited_urls = {}
  /\ site_map = NewSiteMap
  /\ calls = <<>>
  /\ fetched = [u \in URLS |-> 0]
  /\ session = 0
  /\ sched = "idle"
  /\ selected_paths = <<>>
  /\ batch_i = 1
  /\ ptasks = <<>>
  /\ result = NewResult
  /\ progress_calls = 0
  /\ sessions = NoSessions
  /\ dom = NoQuestion

\* Config(output_dir=..., max_depth=..., ...) with each keyword drawn from
\* the given set: accepted or ValueError
Construct(mds, mls, mcs, cds, subs) ==
  /\ phase = "init"
  /\ \E md \in mds, ml \in mls, mc \in mcs, cd \in cds, sub \in subs :
       LET c == [max_depth |-> md, max_links_per_page |-> ml,
                 max_concurrent_requests |-> mc, crawl_delay |-> cd,
                 allow_subdomains |-> sub]
       IN  /\ config' = c
           /\ phase' = IF ValidConfig(c) THEN "ready" ELSE "rejected"
  /\ UNCHANGED <<web, libVars, crawlVars, procVars>>

\* the configurations a discovery is tried with
BuildConfig ==
  Construct((0..MaxDepthTried) \cup {MaxDepth + 1}, 1..MaxLinksTried,
            (-1)..MaxConcTried, {1, MaxCrawlDelay + 1}, BOOLEAN)

\* discover_site_structure(root_url): SiteMap(root_url), then
\* _crawl_recursive(root_url, site_map, depth=0) up to its first await
Discover ==
  /\ phase = "ready"
  /\ phase' = "crawling"
  /\ site_map' = NewSiteMap
  /\ LET pc == Enter(ROOT, 0)
     IN  /\ calls' = (<<>> :> [url |-> ROOT, depth |-> 0, pc |-> pc, fetch |-> "none"])
         /\ visited_urls' = Claim(ROOT, pc, visited_urls)
         /\ fetched' = IF pc = "fetch" THEN Issue(ROOT) ELSE fetched
  /\ session' = session + 1
  /\ UNCHANGED <<config, web, libVars, procVars>>

\* _limited_crawl: a waiting child gets a permit of its parent's semaphore
\* (asyncio wakes waiters first-in first-out) and runs _crawl_recursive up
\* to its first await
StartChild(id) ==
  /\ phase = "crawling"
  /\ calls[id].pc = "pending"
  /\ LET parent == SubSeq(id, 1, Len(id) - 1)
         pc == Enter(calls[id].url, calls[id].depth)
     IN  /\ InUse(parent) < config.max_concurrent_requests
         /\ \A c \in Children(parent) : c[Len(c)] < id[Len(id)] => calls[c].pc # "pending"
         /\ calls' = [calls EXCEPT ![id].pc = pc]
         /\ visited_urls' = Claim(calls[id].url, pc, visited_urls)
  /\ UNCHANGED <<phase, config, web, libVars, site_map, fetched, session, procVars>>

\* asyncio.sleep(crawl_delay) is over: session.get(url) is issued
WakeUp(id) ==
  /\ phase = "crawling"
  /\ calls[id].pc = "sleep"
  /\ calls' = [calls EXCEPT ![id].pc = "fetch"]
  /\ fetched' = Issue(calls[id].url)
  /\ UNCHANGED <<phase, config, web, libVars, visited_urls, site_map, session, procVars>>

\* _crawl_single_page resolves with success = ok, and _crawl_recursive runs
\* on to its gather or to its end
FetchDone(id, ok) ==
  /\ phase = "crawling"
  /\ calls[id].pc = "fetch"
  /\ LET url == calls[id].url
         depth == calls[id].depth
         links == extract_links(web[url].anchors)
         files == extract_files(web[url].files)
         sm1 == add_page(site_map, url, web[url].title, depth)
         sm2 == AddFiles(sm1, url, files)
         expand == depth < config.max_depth
         capped == Slice(links, config.max_links_per_page)
         tasks == IF expand
                    THEN SelectSeq(capped,
                           LAMBDA l : is_same_domain(config.allow_subdomains, url, l))
                    ELSE <<>>
     IN  IF ~crawl_result_success(ok)
           THEN /\ calls' = [calls EXCEPT ![id].pc = "done", ![id].fetch = Outcome(ok)]
                /\ UNCHANGED site_map
           ELSE /\ site_map' = IF expand THEN AddLinks(sm2, url, capped) ELSE sm2
                /\ calls' =
                     IF tasks = <<>> \/ config.max_concurrent_requests < 0
                       THEN [calls EXCEPT ![id].pc = "done", ![id].fetch = Outcome(ok)]
                       ELSE [calls EXCEPT ![id].pc = "gather", ![id].fetch = Outcome(ok)] @@
                            [c \in {Append(id, k) : k \in 1..Len(tasks)} |->
                               [url |-> tasks[c[Len(c)]], depth |-> depth + 1,
                                pc |-> "pending", fetch |-> "none"]]
  /\ UNCHANGED <<phase, config, web, libVars, visited_urls, fetched, session, procVars>>

children_returned_or_failed(id) ==
  \/ \A c \in Children(id) : calls[c].pc = "done"
  \/ \E c \in Children(id) : calls[c].pc = "done" /\ calls[c].fetch = "failed"

\* `await asyncio.gather(*limited_tasks, return_exceptions=True)` resumes
\* when every child has returned
children_returned(id) == \A c \in Children(id) : calls[c].pc = "done"

\* asyncio.gather(*limited_tasks) resolves: every child has returned
GatherDone(id) ==
  /\ phase = "crawling"
  /\ calls[id].pc = "gather"
  /\ children_returned(id)
  /\ calls' = [calls EXCEPT ![id].pc = "done"]
  /\ UNCHANGED <<phase, config, web, libVars, visited_urls, site_map, fetched, session, procVars>>

\* discover_site_structure leaves `async with self` and returns site_map
Return ==
  /\ phase = "crawling"
  /\ calls[<<>>].pc = "done"
  /\ phase' = "returned"
  /\ UNCHANGED <<config, web, libVars, crawlVars, procVars>>

\* discover_site_structure is called again on the same WebCrawler: a new
\* SiteMap, and _crawl_recursive(root_url, site_map, depth=0) up to its first
\* await, with the visited_urls the object holds
Rediscover ==
  /\ phase = "returned"
  /\ session < MaxSessions
  /\ phase' = "crawling"
  /\ site_map' = NewSiteMap
  /\ LET pc == Enter(ROOT, 0)
     IN  /\ calls' = (<<>> :> [url |-> ROOT, depth |-> 0, pc |-> pc, fetch |-> "none"])
         /\ visited_urls' = Claim(ROOT, pc, visited_urls)
         /\ fetched' = IF pc = "fetch" THEN Issue(ROOT) ELSE fetched
  /\ session' = session + 1
  /\ UNCHANGED <<config, web, libVars, procVars>>

\* ------------------------------------------------------------- WebScraper
\* the lists process_paths is tried with: the prefixes of a list that
\* repeats URLs
SelectedMaster == <<"A", "B", "A", "C", "D", "B", "X", "C", "A">>
SelectedLists == {SubSeq(SelectedMaster, 1, n) : n \in 0..MaxSelected}

\* what the render of a page can come to while the scraper runs: the
\* pages of A and D convert or not, those of B and X never do, every other
\* page always does
RenderOutcomes(u) ==
  CASE u \in {"A", "D"} -> BOOLEAN
    [] u \in {"B", "X"} -> {FALSE}
    [] OTHER -> {TRUE}

\* what is at a file's output path when its download starts: nothing, a file
\* of size 0 (left by an interrupted earlier run), or a file with content
DiskStates == {"absent", "empty", "full"}

\* what the scan of a page can come to while the scraper runs: the pages
\* of B and X do not answer with status 200, C names no file, A names one
\* file, whose output path holds nothing or an empty file, every other page
\* names MaxFilesPerPage files whose output paths all hold a file with
\* content; `found` is the number of downloads started, `disk` what their
\* output paths hold
ScanOutcomes(u) ==
  CASE u \in {"B", "X"} -> {[page_ok |-> FALSE, found |-> 0, disk |-> "absent"]}
    [] u = "C" -> {[page_ok |-> TRUE, found |-> 0, disk |-> "absent"]}
    [] u = "A" -> {[page_ok |-> TRUE, found |-> 1, disk |-> d] :
                      d \in DiskStates \ {"full"}}
    [] OTHER -> {[page_ok |-> TRUE, found |-> MaxFilesPerPage, disk |-> "full"]}

\* _download_single_file, the test before any request: the download is
\* skipped, and reported as a success, when output_path.exists(); the size
\* of the file that exists is not looked at
skip_download(disk) == disk # "absent"

\* the transfers that succeed among `attempted` downloads whose output path
\* does not exist: _download_single_file calls self.session.get on the
\* FileDownloader, whose session is None (set only by its __aenter__, which
\* WebScraper never enters), so each of them raises and returns False
transfers(attempted) == 0

\* download_files_from_html: the number of results that are True, a
\* download returning True when its output path exists already and when its
\* transfer is confirmed
successful_downloads(existing, transferred) == existing + transferred

\* positions of _process_single_path inside `async with semaphore`
Gated(pc) == pc \in {"render", "scan", "pace"}

\* the permits of the process_paths semaphore in use
GatedTasks == {k \in DOMAIN ptasks : Gated(ptasks[k].pc)}

CanAcquireAlways(value) == TRUE

\* asyncio.Semaphore.acquire does not wait iff the value is positive
CanAcquire(value) == value > 0

BatchOverlap(i, paths) == {k \in 1..Len(paths) : i - 1 <= k /\ k < i + batch_size}

\* selected_paths[i:i + batch_size], as the indices of its entries
Batch(i, paths) == {k \in 1..Len(paths) : i <= k /\ k < i + batch_size}

\* a _process_single_path coroutine not yet created
NewTask(url) ==
  [url |-> url, pc |-> "new", attempts |-> 0, pdf_success |-> "none",
   scan |-> "none", found |-> 0, disk |-> "absent", skipped |-> 0,
   requested |-> 0, transferred |-> 0, downloaded_count |-> 0]

\* the coroutines of one batch are created and gathered
LaunchBatch(i, paths, old) ==
  [k \in 1..Len(paths) |->
     IF k \in Batch(i, paths)
       THEN [NewTask(paths[k]) EXCEPT !.pc = "waiting", !.attempts = old[k].attempts]
       ELSE old[k]]

record_render_counts_all(res, url, pdf_success) ==
  IF pdf_success
    THEN [res EXCEPT !.pages_converted = @ + 1]
    ELSE [res EXCEPT !.pages_converted = @ + 1,
                     !.errors = Append(@, [what |-> "convert", url |-> url])]

\* `if pdf_success: result.pages_converted += 1 else: result.errors.append(...)`
record_render(res, url, pdf_success) ==
  IF pdf_success
    THEN [res EXCEPT !.pages_converted = @ + 1]
    ELSE [res EXCEPT !.errors = Append(@, [what |-> "convert", url |-> url])]

record_downloads_lost(res, downloaded_count) == res

\* `result.files_downloaded += downloaded_count`
record_downloads(res, downloaded_count) ==
  [res EXCEPT !.files_downloaded = @ + downloaded_count]

AfterRenderAbort(pdf_success) == IF pdf_success THEN "scan" ELSE "aborted"

\* after step 1 the task goes on to _download_files_from_page, whatever
\* pdf_success is
AfterRender(pdf_success) == "scan"

AfterScanSkip(page_ok) == IF page_ok THEN "pace" ELSE "done"

\* after step 2 the task awaits asyncio.sleep(crawl_delay), whatever the scan
\* came to
AfterScan(page_ok) == "pace"

\* what _download_files_from_page returns: 0 when the page fetch failed,
\* else the count of download_files_from_html
scan_count(page_ok, downloaded_count) == IF page_ok THEN downloaded_count ELSE 0

\* the configurations process_paths is tried with: the scraper reads
\* max_concurrent_requests, which is also tried above the batch size, and
\* crawl_delay
BuildScraperConfig ==
  Construct({DefaultConfig.max_depth}, {DefaultConfig.max_links_per_page},
            ((-1)..MaxConcTried) \cup {batch_size + 1}, {1, MaxCrawlDelay + 1},
            {DefaultConfig.allow_subdomains})

\* process_paths(selected_paths, progress_callback) up to its first await:
\* the semaphore is created and the first batch launched
StartProcessing(paths) ==
  /\ sched = "idle"
  /\ selected_paths' = paths
  /\ result' = NewResult
  /\ batch_i' = 1
  /\ LET new == [k \in 1..Len(paths) |-> NewTask(paths[k])]
     IN  ptasks' = IF config.max_concurrent_requests < 0 THEN new
                   ELSE LaunchBatch(1, paths, new)
  /\ sched' = IF config.max_concurrent_requests < 0 THEN "raised"
              ELSE IF Len(paths) = 0 THEN "returned"
              ELSE "gather"
  /\ sessions' = IF config.max_concurrent_requests < 0 \/ Len(paths) = 0
                   THEN aexit(aenter(sessions))
                   ELSE aenter(sessions)
  /\ UNCHANGED <<phase, config, web, libVars, crawlVars, progress_calls>>

\* process_paths called on a WebScraper with a list of the caller's choice
ProcessPaths(paths) ==
  /\ phase = "ready"
  /\ StartProcessing(paths)

\* run_scraping_session in non-interactive mode, after
\* discover_site_structure returned: every key of the site map's pages is
\* handed to process_paths
NonInteractive ==
  /\ phase = "returned"
  /\ StartProcessing(get_all_paths(site_map))

\* _process_single_path enters `async with semaphore` (waiters are woken
\* first-in first-out) and awaits _convert_page_to_pdf
Acquire(k) ==
  /\ sched = "gather"
  /\ ptasks[k].pc = "waiting"
  /\ CanAcquire(config.max_concurrent_requests - Cardinality(GatedTasks))
  /\ \A j \in DOMAIN ptasks : j < k => ptasks[j].pc # "waiting"
  /\ ptasks' = [ptasks EXCEPT ![k].pc = "render", ![k].attempts = @ + 1]
  /\ UNCHANGED <<phase, config, web, libVars, crawlVars, sessions, sched, selected_paths, batch_i,
                 result, progress_calls>>

\* _convert_page_to_pdf resolves with pdf_success; the page fetch of
\* _download_files_from_page is issued
RenderDone(k, pdf_success) ==
  /\ sched = "gather"
  /\ ptasks[k].pc = "render"
  /\ result' = record_render(result, ptasks[k].url, pdf_success)
  /\ ptasks' = [ptasks EXCEPT ![k].pc = AfterRender(pdf_success),
                              ![k].pdf_success = IF pdf_success THEN "ok" ELSE "failed"]
  /\ UNCHANGED <<phase, config, web, libVars, crawlVars, sessions, sched, selected_paths, batch_i,
                 progress_calls>>

\* _download_files_from_page resolves: its page fetch failed (status not
\* 200, or an exception), or download_files_from_html started `found`
\* downloads of which `existing` found their output path on disk; nothing in the try
\* block of _process_single_path raises, _convert_page_to_pdf and
\* _download_files_from_page catching every exception themselves;
\* asyncio.sleep(crawl_delay) begins
ScanDone(k, page_ok, found, disk) ==
  /\ sched = "gather"
  /\ ptasks[k].pc = "scan"
  /\ ~page_ok => found = 0
  /\ LET existing == IF skip_download(disk) THEN found ELSE 0
         requested == found - existing
         transferred == transfers(requested)
         downloaded_count == successful_downloads(existing, transferred)
     IN  /\ result' = record_downloads(result, scan_count(page_ok, downloaded_count))
         /\ ptasks' = [ptasks EXCEPT
                         ![k].pc = AfterScan(page_ok),
                         ![k].scan = IF page_ok THEN "ok" ELSE "failed",
                         ![k].found = found,
                         ![k].disk = disk,
                         ![k].skipped = existing,
                         ![k].requested = requested,
                         ![k].transferred = transferred,
                         ![k].downloaded_count = scan_count(page_ok, downloaded_count)]
  /\ UNCHANGED <<phase, config, web, libVars, crawlVars, sessions, sched, selected_paths, batch_i,
                 progress_calls>>

\* the pacing sleep is over: the task leaves `async with semaphore`
PaceDone(k) ==
  /\ sched = "gather"
  /\ ptasks[k].pc = "pace"
  /\ ptasks' = [ptasks EXCEPT ![k].pc = "done"]
  /\ UNCHANGED <<phase, config, web, libVars, crawlVars, sessions, sched, selected_paths, batch_i,
                 result, progress_calls>>

gather_resolved_first(i, paths, tasks) ==
  \E k \in Batch(i, paths) : tasks[k].pc = "done"

\* `await asyncio.gather(*tasks, return_exceptions=True)` resumes when every
\* coroutine of the batch has finished
gather_resolved(i, paths, tasks) ==
  \A k \in Batch(i, paths) : tasks[k].pc = "done"

progress_callback_skipped(n) == n

\* `if progress_callback: progress_callback()`, for a callback that counts
\* its calls
progress_callback(n) == n + 1

\* asyncio.gather(*tasks) resolves; progress_callback(); asyncio.sleep(0.5)
BatchDone ==
  /\ sched = "gather"
  /\ gather_resolved(batch_i, selected_paths, ptasks)
  /\ progress_calls' = progress_callback(progress_calls)
  /\ sched' = "pause"
  /\ UNCHANGED <<phase, config, web, libVars, crawlVars, sessions, selected_paths, batch_i, ptasks, result>>

\* the pause between batches is over: the next batch, or the end of the loop
PauseDone ==
  /\ sched = "pause"
  /\ batch_i' = batch_i + batch_size
  /\ IF batch_i + batch_size <= Len(selected_paths)
       THEN /\ ptasks' = LaunchBatch(batch_i + batch_size, selected_paths, ptasks)
            /\ sched' = "gather"
       ELSE /\ ptasks' = ptasks
            /\ sched' = "returned"
  /\ sessions' = IF batch_i + batch_size <= Len(selected_paths) THEN sessions
                   ELSE aexit(sessions)
  /\ UNCHANGED <<phase, config, web, libVars, crawlVars, selected_paths, result, progress_calls>>

Next ==
  \/ BuildConfig
  \/ Discover
  \/ \E id \in DOMAIN calls : StartChild(id)
  \/ \E id \in DOMAIN calls : WakeUp(id)
  \/ \E id \in DOMAIN calls, ok \in BOOLEAN : FetchDone(id, ok)
  \/ \E id \in DOMAIN calls : GatherDone(id)
  \/ Return

Spec == Init /\ [][Next]_vars

\* one WebCrawler used for several discoveries in a row
NextReuse ==
  \/ Next
  \/ Rediscover

SpecReuse == Init /\ [][NextReuse]_vars

\* _is_same_domain on its own: three URLs are given, with the
\* allow_subdomains of the configuration
InitDomain ==
  /\ phase = "init"
  /\ config \in {[DefaultConfig EXCEPT !.allow_subdomains = b] : b \in BOOLEAN}
  /\ web = SiteTree
  /\ visited_urls = {}
  /\ site_map = NewSiteMap
  /\ calls = <<>>
  /\ fetched = [u \in URLS |-> 0]
  /\ session = 0
  /\ sched = "idle"
  /\ selected_paths = <<>>
  /\ batch_i = 1
  /\ ptasks = <<>>
  /\ result = NewResult
  /\ progress_calls = 0
  /\ sessions = NoSessions
  /\ dom \in {[NoQuestion EXCEPT !.pc = "asked", !.url1 = u1, !.url2 = u2, !.url3 = u3] :
               u1 \in DomainURLS, u2 \in DomainURLS, u3 \in DomainURLS}

\* the calls of _is_same_domain among the three URLs return
SameDomainCalls ==
  /\ dom.pc = "asked"
  /\ dom' = [dom EXCEPT
               !.pc = "answered",
               !.same11 = is_same_domain(config.allow_subdomains, dom.url1, dom.url1),
               !.same12 = is_same_domain(config.allow_subdomains, dom.url1, dom.url2),
               !.same21 = is_same_domain(config.allow_subdomains, dom.url2, dom.url1),
               !.same23 = is_same_domain(config.allow_subdomains, dom.url2, dom.url3),
               !.same13 = is_same_domain(config.allow_subdomains, dom.url1, dom.url3)]
  /\ UNCHANGED <<phase, config, web, crawlVars, procVars>>

NextDomain == SameDomainCalls

SpecDomain == InitDomain /\ [][NextDomain]_vars

\* a non-interactive session up to the first await of process_paths:
\* discovery, then the hand-over of what it found
NextSession ==
  \/ Next
  \/ NonInteractive

SpecSession == Init /\ [][NextSession]_vars

\* a processing run of a WebScraper on its own
InitProcess == Init /\ web = SiteTree

NextProcess ==
  \/ BuildScraperConfig
  \/ \E paths \in SelectedLists : ProcessPaths(paths)
  \/ \E k \in DOMAIN ptasks : Acquire(k)
  \/ \E k \in DOMAIN ptasks : \E pdf_success \in RenderOutcomes(ptasks[k].url) :
        RenderDone(k, pdf_success)
  \/ \E k \in DOMAIN ptasks : \E o \in ScanOutcomes(ptasks[k].url) :
        ScanDone(k, o.page_ok, o.found, o.disk)
  \/ \E k \in DOMAIN ptasks : PaceDone(k)
  \/ BatchDone
  \/ PauseDone

SpecProcess == InitProcess /\ [][NextProcess]_vars

\* the event loop runs every ready coroutine, and every render, fetch and
\* sleep resolves
FairProcess == SpecProcess /\ WF_vars(NextProcess)

\* the event loop runs every ready coroutine, and every sleep and every
\* fetch (which carries a timeout) resolves
FairSpec == Spec /\ WF_vars(Next)

\* ------------------------------------------------------------ properties
Started == phase \in {"crawling", "returned"}
Attempted == {u \in URLS : fetched[u] > 0}
Host(u) == LowerAll(Netloc(u))
\* result.links[:max_links_per_page] of a successful fetch of u
Capped(u) == Slice(extract_links(web[u].anchors), config.max_links_per_page)
CallsFor(u) == {c \in DOMAIN calls : calls[c].url = u}

\* C1: under every interleaving each URL is fetched at most once, and the
\* visited set is exactly the URLs whose fetch was attempted, together with
\* the claimed URLs still in their pacing delay before the fetch
C1_FetchedAtMostOnce ==
  /\ \A u \in URLS : fetched[u] <= 1
  /\ visited_urls = Attempted \cup {calls[c].url : c \in {d \in DOMAIN calls : calls[d].pc = "sleep"}}
  /\ phase = "returned" => visited_urls = Attempted

\* a URL reached by two branches and fetched once, and a failed fetch
C1_Witness ==
  /\ phase = "returned"
  /\ \E u \in URLS : Cardinality(CallsFor(u)) >= 2 /\ fetched[u] = 1
  /\ \E u \in Attempted : u \notin DOMAIN site_map.pages

\* C2: the page fetches in flight across the whole traversal never exceed
\* max_concurrent_requests
C2_GlobalFetchBound ==
  (phase = "crawling" /\ config.max_concurrent_requests >= 1)
    => Cardinality(InFlight) <= config.max_concurrent_requests

\* C3: at most max_concurrent_requests per-URL tasks are inside their gated
\* section (rendering, scanning or pacing) at any time
C3_GatedBound ==
  sched # "idle" => Cardinality(GatedTasks) <= Max(config.max_concurrent_requests, 0)

\* the semaphore is exhausted while a task of the batch still waits
C3_Witness ==
  /\ config.max_concurrent_requests >= 1
  /\ Cardinality(GatedTasks) = config.max_concurrent_requests
  /\ \E k \in DOMAIN ptasks : ptasks[k].pc = "waiting"
  /\ \E k \in GatedTasks : ptasks[k].pc = "pace"

\* C4: every page record has depth <= max_depth, and no fetch is issued or
\* pending for a URL at a depth > max_depth
C4_DepthBound ==
  Started =>
    /\ \A u \in DOMAIN site_map.pages : site_map.pages[u].depth <= config.max_depth
    /\ \A c \in DOMAIN calls :
         calls[c].pc \in {"sleep", "fetch", "gather"} => calls[c].depth <= config.max_depth

\* a page recorded at depth = max_depth whose link was not fetched
C4_Witness ==
  /\ phase = "returned"
  /\ \E u \in DOMAIN site_map.pages :
       /\ site_map.pages[u].depth = config.max_depth
       /\ \E i \in 1..Len(Capped(u)) : fetched[Capped(u)[i]] = 0

C6_EdgesOfEveryPage ==
  Started => \A p \in DOMAIN site_map.pages : site_map.links[p] = Capped(p)

\* C7 as claimed: a run with max_depth = 0 is accepted and fetches exactly
\* the root
C7_DepthZeroAccepted ==
  (phase # "init" /\ config.max_depth = 0) =>
    /\ phase # "rejected"
    /\ phase = "returned" => Attempted = {ROOT}

\* C7 as amended: max_depth = 0 is rejected when the Config is built and
\* nothing is fetched; with the smallest accepted bound, max_depth = 1, the
\* root's page record, files and link edges are recorded and only links of
\* the root are traversed, which schedule no children themselves
C7_DepthZeroRejected ==
  /\ (phase # "init" /\ config.max_depth = 0) =>
       phase = "rejected" /\ Attempted = {} /\ calls = <<>>
  /\ (phase = "returned" /\ config.max_depth = MinDepth /\ ROOT \in DOMAIN site_map.pages) =>
       /\ site_map.links[ROOT] = Capped(ROOT)
       /\ site_map.files[ROOT] = extract_files(web[ROOT].files)
       /\ \A c \in DOMAIN calls : Len(c) <= 1
       /\ Attempted \subseteq {ROOT} \cup Range(Capped(ROOT))

\* a Config built with max_depth = 0 was rejected
C7_Witness == phase = "rejected" /\ config.max_depth = 0 /\ config.crawl_delay = 1

\* C8: links[page] is exactly the first max_links_per_page links of the
\* page's fetch result, and only those links are scheduled for traversal
C8_CapOnEdgesAndTraversal ==
  Started => \A c \in DOMAIN calls :
    LET p == calls[c].url
    IN  (calls[c].pc \in {"gather", "done"} /\ p \in DOMAIN site_map.pages) =>
          /\ site_map.links[p] = Capped(p)
          /\ \A d \in Children(c) : calls[d].url \in Range(Capped(p))

\* C9: with max_concurrent_requests >= 1 a discovery that has started
\* eventually returns the site map
C9_Returns ==
  (phase = "crawling" /\ config.max_concurrent_requests >= 1) ~> (phase = "returned")

\* a discovery over self-links and reciprocal links, with a failed fetch,
\* has returned
C9_Witness ==
  /\ phase = "returned"
  /\ config.max_concurrent_requests >= 1
  /\ \E c \in DOMAIN calls : c # <<>> /\ calls[c].url = ROOT
  /\ \E c \in DOMAIN calls : calls[c].url = calls[SubSeq(c, 1, Len(c) - 1)].url /\ c # <<>>
  /\ \E u \in Attempted : u \notin DOMAIN site_map.pages
  /\ \E c \in DOMAIN calls : Len(c) = 2

\* C10: no traversal starts with max_depth outside 1..10 or with
\* max_concurrent_requests <= 0
C10_BoundsRejectedEagerly ==
  phase = "crawling" =>
    /\ config.max_depth >= MinDepth /\ config.max_depth <= MaxDepth
    /\ config.max_concurrent_requests > 0

\* C11: a URL whose fetch failed gets no pages entry, no links key and no
\* files key, and none of its links is traversed
C11_FailedFetchRecordsNothing ==
  \A c \in DOMAIN calls : calls[c].fetch = "failed" =>
    /\ calls[c].url \notin DOMAIN site_map.pages
    /\ calls[c].url \notin DOMAIN site_map.links
    /\ calls[c].url \notin DOMAIN site_map.files
    /\ Children(c) = {}
    /\ calls[c].pc = "done"

\* the fetch of a page that has links and files failed below max_depth, and
\* the page occurs only as the target of its parent's edge
C11_Witness ==
  /\ phase = "returned"
  /\ \E c \in DOMAIN calls :
       /\ calls[c].fetch = "failed"
       /\ calls[c].depth < config.max_depth
       /\ web[calls[c].url].anchors # <<>>
       /\ web[calls[c].url].files # <<>>
       /\ c # <<>>
       /\ calls[c].url \in Range(site_map.links[calls[SubSeq(c, 1, Len(c) - 1)].url])

\* C12: every key of links or of files is a key of pages
C12_KeysArePages ==
  /\ DOMAIN site_map.links \subseteq DOMAIN site_map.pages
  /\ DOMAIN site_map.files \subseteq DOMAIN site_map.pages

\* edges and files are recorded, and some edge's target has no pages entry
C12_Witness ==
  /\ phase = "returned"
  /\ \E p \in DOMAIN site_map.files : site_map.files[p] # <<>>
  /\ \E p \in DOMAIN site_map.links : \E i \in 1..Len(site_map.links[p]) :
       site_map.links[p][i] \notin DOMAIN site_map.pages

\* a call passes the visited check in this step
PassesCheck(c) ==
  /\ c \in DOMAIN calls'
  /\ calls'[c].pc \in {"sleep", "fetch"}
  /\ c \in DOMAIN calls => calls[c].pc = "pending"

\* C19: a call passes the visited check only for a URL not yet in the
\* visited set and inserts it in the same uninterrupted step, so that no
\* second call can pass the check for it; and a fetch issued after the
\* pacing delay is for a URL already in the visited set
C19_ClaimBeforeFetch ==
  [][ /\ visited_urls \subseteq visited_urls'
      /\ \A c \in DOMAIN calls' :
           /\ PassesCheck(c) =>
                calls'[c].url \notin visited_urls /\ calls'[c].url \in visited_urls'
           /\ (c \in DOMAIN calls /\ calls[c].pc = "sleep" /\ calls'[c].pc = "fetch") =>
                calls[c].url \in visited_urls ]_vars

\* a URL is claimed by a call still in its pacing delay, not yet fetched,
\* and a second call for it has already returned at the visited check
C19_Witness ==
  \E c1, c2 \in DOMAIN calls :
    /\ c1 # c2
    /\ calls[c1].url = calls[c2].url
    /\ calls[c1].pc = "sleep"
    /\ calls[c2].pc = "done" /\ calls[c2].fetch = "none"
    /\ fetched[calls[c1].url] = 0
    /\ calls[c1].url \in visited_urls

\* C20: every discovery on a WebCrawler starts from an empty visited set, so
\* each call of discover_site_structure fetches the root again
C20_FreshVisitedSet == Started => fetched[ROOT] = session

\* ------------------------------------------------- properties, WebScraper
Called == sched # "idle"
RenderFailed == {k \in DOMAIN ptasks : ptasks[k].pdf_success = "failed"}
RenderOk == {k \in DOMAIN ptasks : ptasks[k].pdf_success = "ok"}
ScanFailed == {k \in DOMAIN ptasks : ptasks[k].scan = "failed"}
DownloadFailed == {k \in DOMAIN ptasks : ptasks[k].downloaded_count < ptasks[k].found}
EntriesOf(u, S) == Cardinality({k \in S : ptasks[k].url = u})
ErrorsFor(u) == Cardinality({i \in DOMAIN result.errors : result.errors[i].url = u})

RECURSIVE DownloadedUpTo(_)
DownloadedUpTo(n) ==
  IF n = 0 THEN 0 ELSE ptasks[n].downloaded_count + DownloadedUpTo(n - 1)

\* C13: process_paths attempts every entry of the selected list exactly
\* once per run, batch after batch in list order: no entry is attempted
\* twice, the entries before the current batch are finished, those after it
\* are untouched, and at the return every entry, a repeated URL included,
\* has been attempted once.
C13_EachEntryOnce ==
  Called =>
    /\ Len(ptasks) = Len(selected_paths)
    /\ \A k \in DOMAIN ptasks :
         /\ ptasks[k].url = selected_paths[k]
         /\ ptasks[k].attempts <= 1
         /\ k < batch_i => ptasks[k].pc = "done" /\ ptasks[k].attempts = 1
         /\ k >= batch_i + batch_size => ptasks[k].pc = "new" /\ ptasks[k].attempts = 0
         /\ sched = "returned" => ptasks[k].attempts = 1

C13_Witness ==
  /\ sched = "returned"
  /\ Len(selected_paths) > batch_size
  /\ \E j, k \in DOMAIN ptasks :
       /\ j < k
       /\ ptasks[j].url = ptasks[k].url
       /\ ptasks[j].attempts = 1
       /\ ptasks[k].attempts = 1

\* C14: once the render or the scan of one entry has failed, process_paths
\* still goes on to attempt every entry of the list, those of the same batch
\* and of later batches, and returns instead of raising.
C14_ErrorDoesNotStopOthers ==
  (RenderFailed \cup ScanFailed # {})
    ~> (sched = "returned" /\ \A k \in DOMAIN ptasks : ptasks[k].attempts = 1)

C14_Witness ==
  /\ sched = "returned"
  /\ Len(selected_paths) > batch_size
  /\ ptasks[1].pdf_success = "failed"
  /\ ptasks[2].scan = "failed"
  /\ \A k \in DOMAIN ptasks : ptasks[k].attempts = 1

\* C15: every failed render, every failed page fetch of the file scan and
\* every failed file download leaves an entry naming its URL in
\* result.errors: a URL has at least as many entries as failures.
C15_EveryFailureInErrors ==
  \A u \in URLS :
    ErrorsFor(u) >= EntriesOf(u, RenderFailed) + EntriesOf(u, ScanFailed)
                      + EntriesOf(u, DownloadFailed)

\* C16: under every interleaving pages_converted is the number of entries
\* whose render succeeded and result.errors holds exactly one entry, naming
\* the URL, per entry whose render failed.
C16_RenderCounts ==
  Called =>
    /\ result.pages_converted = Cardinality(RenderOk)
    /\ Len(result.errors) = Cardinality(RenderFailed)
    /\ \A u \in URLS : ErrorsFor(u) = EntriesOf(u, RenderFailed)

C16_Witness ==
  /\ sched = "returned"
  /\ Len(selected_paths) > batch_size
  /\ Cardinality(RenderFailed) = 2
  /\ result.pages_converted = Len(selected_paths) - 2
  /\ Len(result.errors) = 2

\* C17: once called, process_paths terminates and returns its result, for
\* every selected list and every outcome of the renders and downloads.
C17_AlwaysReturns == Called ~> (sched = "returned")

\* C18: an entry whose render failed goes on to the file scan like any
\* other, and files_downloaded is the sum of the counts the scans returned,
\* those of the entries whose render failed included.
C18_IndependentAccounting ==
  Called =>
    /\ result.files_downloaded = DownloadedUpTo(Len(ptasks))
    /\ \A k \in RenderFailed :
         /\ ptasks[k].pc \in {"scan", "pace", "done"}
         /\ ptasks[k].pc \in {"pace", "done"} => ptasks[k].scan # "none"

C18_Witness ==
  \E k \in RenderFailed :
    /\ ptasks[k].scan = "ok"
    /\ ptasks[k].downloaded_count > 0
    /\ result.files_downloaded >= ptasks[k].downloaded_count
    /\ result.pages_converted = 0

\* the per-URL tasks created and not yet finished
Outstanding == {k \in DOMAIN ptasks : ptasks[k].pc \notin {"new", "done"}}
SliceOf(k) == (k - 1) \div batch_size
NumBatches(n) == (n + batch_size - 1) \div batch_size

\* C21: a task of a later slice of 5 entries is not started before every
\* task of every earlier slice has finished, so at most 5 tasks are ever
\* outstanding, also when the semaphore admits more.
C21_BatchBarrier ==
  Called =>
    /\ \A j, k \in DOMAIN ptasks :
         (SliceOf(j) < SliceOf(k) /\ ptasks[k].pc # "new") => ptasks[j].pc = "done"
    /\ Cardinality(Outstanding) <= batch_size

C21_Witness ==
  /\ config.max_concurrent_requests > batch_size
  /\ Len(selected_paths) > batch_size
  /\ Cardinality(GatedTasks) = batch_size
  /\ ptasks[batch_size + 1].pc = "new"

\* C22: the progress callback is called once per batch, after every task of
\* the batch has finished and before a task of the next batch starts:
\* ceil(n/5) calls at the return, none for an empty list.
C22_ProgressPerBatch ==
  Called =>
    /\ sched = "returned" => progress_calls = NumBatches(Len(selected_paths))
    /\ \A k \in DOMAIN ptasks :
         /\ k <= progress_calls * batch_size => ptasks[k].pc = "done"
         /\ ptasks[k].pc # "new" => k <= (progress_calls + 1) * batch_size

C22_Witness ==
  /\ sched = "returned"
  /\ Len(selected_paths) = batch_size + 1
  /\ progress_calls = 2

\* C23: the pause between batches is taken only when another batch
\* follows; after the last batch process_paths goes on to return.
C23_PauseOnlyBetweenBatches ==
  sched = "pause" => batch_i + batch_size <= Len(selected_paths)

\* C24: a task finishes, and gives its permit back, only out of the
\* asyncio.sleep(crawl_delay) that follows its scan, whatever its render and
\* its scan came to.
C24_PaceBeforeRelease ==
  [][\A k \in DOMAIN ptasks :
       (k \in DOMAIN ptasks' /\ ptasks[k].pc # "done" /\ ptasks'[k].pc = "done")
         => (ptasks[k].pc = "pace" /\ k \in GatedTasks /\ k \notin GatedTasks')]_vars

C24_Witness ==
  \E k \in RenderFailed \cap ScanFailed :
    /\ ptasks[k].pc = "done"
    /\ \E j \in RenderOk : ptasks[j].pc = "done" /\ ptasks[j].scan = "ok"

\* ------------------------------------------- properties, pacing and records
Parent(c) == SubSeq(c, 1, Len(c) - 1)
NoRepeat(seq) == \A i, j \in DOMAIN seq : i # j => seq[i] # seq[j]
FirstIndex(seq, x) == CHOOSE i \in DOMAIN seq : seq[i] = x /\ \A j \in 1..(i - 1) : seq[j] # x

\* C25: the fetch of the root is issued in the step that enters the root
\* call, with no suspension before it; the fetch of a call at depth > 0 is
\* issued only out of the asyncio.sleep(crawl_delay) of that call, and the
\* call enters this sleep with its URL in the visited set.
C25_PacingBeforeFetch ==
  [][\A c \in DOMAIN calls' :
       /\ (calls'[c].pc = "fetch" /\ (c \in DOMAIN calls => calls[c].pc # "fetch")) =>
            IF calls'[c].depth = 0
              THEN c \notin DOMAIN calls \/ calls[c].pc # "sleep"
              ELSE /\ c \in DOMAIN calls
                   /\ calls[c].pc = "sleep"
                   /\ calls[c].url \in visited_urls
       /\ calls'[c].pc = "sleep" =>
            calls'[c].depth > 0 /\ calls'[c].url \in visited_urls']_vars

C25_Witness ==
  /\ fetched[ROOT] = 1
  /\ calls[<<>>].fetch = "ok"
  /\ \E c \in DOMAIN calls :
       /\ calls[c].depth > 0
       /\ calls[c].pc = "fetch"
       /\ fetched[calls[c].url] = 1

\* C26: once a child branch has failed, every branch scheduled by the same
\* page still runs to its end: nothing cancels a sibling.
C26_SiblingsRunToCompletion ==
  (\E c \in DOMAIN calls : c # <<>> /\ calls[c].fetch = "failed")
    ~> (\A c \in DOMAIN calls :
          (c # <<>> /\ calls[c].fetch = "failed") =>
             \A d \in Children(Parent(c)) : calls[d].pc = "done")

C26_Witness ==
  /\ phase = "returned"
  /\ \E c, d \in DOMAIN calls :
       /\ c # <<>> /\ d # <<>> /\ c # d
       /\ Parent(c) = Parent(d)
       /\ c[Len(c)] < d[Len(d)]
       /\ calls[c].fetch = "failed"
       /\ calls[d].fetch = "ok" /\ calls[d].pc = "done"

\* C27: within a discovery a page record, once written, never changes; it
\* was written by the one call that claimed the URL and fetched it, with
\* that call's depth, whatever other calls met the URL at other depths.
C27_PageWrittenOnce ==
  [][/\ \A u \in DOMAIN site_map.pages :
          u \in DOMAIN site_map.pages' /\ site_map.pages'[u] = site_map.pages[u]
     /\ \A u \in DOMAIN site_map.pages' :
          /\ Cardinality({c \in CallsFor(u)' : calls'[c].fetch # "none"}) = 1
          /\ \A c \in CallsFor(u)' :
               calls'[c].fetch = "ok" => site_map.pages'[u].depth = calls'[c].depth]_vars

C27_Witness ==
  \E c1, c2 \in DOMAIN calls :
    /\ calls[c1].url = calls[c2].url
    /\ calls[c1].depth # calls[c2].depth
    /\ calls[c1].fetch = "ok"
    /\ calls[c2].pc = "done" /\ calls[c2].fetch = "none"
    /\ calls[c1].url \in DOMAIN site_map.pages
    /\ site_map.pages[calls[c1].url].depth = calls[c1].depth
    /\ phase = "returned"

\* C28: files[page] holds no two entries with the same file URL.
C28_NoDuplicateFiles ==
  \A p \in DOMAIN site_map.files :
    \A i, j \in DOMAIN site_map.files[p] :
      i # j => site_map.files[p][i].url # site_map.files[p][j].url

\* C29: links[page] holds each target once, in the order in which the
\* targets first occur among the page's anchors.
C29_LinksUniqueInOrder ==
  \A p \in DOMAIN site_map.links :
    /\ NoRepeat(site_map.links[p])
    /\ \A i, j \in DOMAIN site_map.links[p] :
         i < j => /\ site_map.links[p][i] \in Range(web[p].anchors)
                  /\ site_map.links[p][j] \in Range(web[p].anchors)
                  /\ FirstIndex(web[p].anchors, site_map.links[p][i])
                       < FirstIndex(web[p].anchors, site_map.links[p][j])

C29_Witness ==
  \E p \in DOMAIN site_map.links :
    /\ Len(site_map.links[p]) >= 2
    /\ ~NoRepeat(web[p].anchors)
    /\ web[p].anchors[1] = web[p].anchors[2]

RECURSIVE TransferredUpTo(_)
TransferredUpTo(n) ==
  IF n = 0 THEN 0 ELSE ptasks[n].transferred + TransferredUpTo(n - 1)

\* C30: files_downloaded counts only the files whose transfer was performed
\* and confirmed in this run, never a file skipped because it exists already.
C30_OnlyTransfersCounted ==
  Called => result.files_downloaded = TransferredUpTo(Len(ptasks))

\* --------------------------------------------------- properties, coverage
\* the same-domain links of a page, as the crawler follows them
Follows(u) ==
  {v \in Range(extract_links(web[u].anchors)) :
     is_same_domain(config.allow_subdomains, u, v)}

\* the URLs within n link hops of the root
RECURSIVE Reach(_)
Reach(n) ==
  IF n = 0 THEN {ROOT}
  ELSE LET r == Reach(n - 1) IN r \cup UNION {Follows(u) : u \in r}

\* the number of link hops from the root to a URL within |URLS| hops of it
Dist(u) == CHOOSE n \in 0..Cardinality(URLS) :
             u \in Reach(n) /\ \A m \in 0..(n - 1) : u \notin Reach(m)

AllFetchesOk == \A c \in DOMAIN calls : calls[c].fetch # "failed"
NoPageOverCap ==
  \A u \in URLS : Len(extract_links(web[u].anchors)) <= config.max_links_per_page

\* C33: when every fetch succeeded and no page has more links than the
\* cap, a discovery with max_concurrent_requests >= 1 returns with a pages
\* entry for every same-domain URL within max_depth link hops of the root.
C33_AllReachableRecorded ==
  (phase = "returned" /\ config.max_concurrent_requests >= 1
     /\ AllFetchesOk /\ NoPageOverCap)
    => Reach(config.max_depth) \subseteq DOMAIN site_map.pages

\* C34: the depth recorded for a page is the least number of link hops
\* from the root to it, whatever the interleaving (stated where every fetch
\* succeeded and no page has more links than the cap, so that every link is
\* followed).
C34_DepthIsDistance ==
  (AllFetchesOk /\ NoPageOverCap) =>
    \A u \in DOMAIN site_map.pages : site_map.pages[u].depth = Dist(u)

\* ------------------------------------------- properties, the CLI session
\* run_scraping_session: progress.add_task(..., total=len(selected_paths)),
\* advanced by one in each call of the callback it passes to process_paths
progress_total(paths) == Len(paths)

\* C38: when process_paths returns, the progress task has been advanced as
\* many times as there are selected paths.
C38_ProgressReachesTotal ==
  sched = "returned" => progress_calls = progress_total(selected_paths)

\* ------------------------------------------ properties, _is_same_domain
\* urlparse(url).hostname, as its dot-separated labels in lower case
Hostname(u) == IF u = "P" THEN <<"ex", "com">> ELSE LowerAll(Netloc(u))
LastTwo(parts) == IF Len(parts) >= 2 THEN SubSeq(parts, Len(parts) - 1, Len(parts)) ELSE parts

\* C32: _is_same_domain answers true exactly when the two hosts are equal,
\* case ignored, with allow_subdomains false, and exactly when their last two
\* labels are equal with allow_subdomains true; either way the relation is
\* reflexive, symmetric and transitive.
C32_SameDomainRelation ==
  dom.pc = "answered" =>
    /\ dom.same12 =
         IF config.allow_subdomains
           THEN LastTwo(Hostname(dom.url1)) = LastTwo(Hostname(dom.url2))
           ELSE Hostname(dom.url1) = Hostname(dom.url2)
    /\ dom.same11
    /\ dom.same12 = dom.same21
    /\ (dom.same12 /\ dom.same23) => dom.same13

\* C31: a file download is skipped only if its output path holds a file of
\* size greater than 0: no page's scan skipped a download whose output path
\* held an empty file
C31_SkipOnlyNonEmpty ==
  \A k \in DOMAIN ptasks :
     ptasks[k].skipped > 0 => ptasks[k].disk = "full"

\* C35: whenever a download issues its HTTP request the session it uses is
\* open: entering the WebScraper context opened every session the run uses,
\* the page fetch of a scan and the requests of the downloads it starts
C35_SessionOpenAtRequest ==
  /\ \A k \in DOMAIN ptasks :
        ptasks[k].scan # "none" => sessions.scraper # "None"
  /\ \A k \in DOMAIN ptasks :
        ptasks[k].requested > 0 => sessions.downloader = "open"

\* the URLs discovery recorded as the target of a link without recording a
\* page for them
OnlyTargets == LinkTargets(site_map) \ DOMAIN site_map.pages

\* C39: in a non-interactive session every URL handed to process_paths is a
\* key of the site map's pages: its fetch succeeded during discovery, its
\* depth is within max_depth and, with allow_subdomains false, it has the
\* root's host; no URL recorded only as a link target is processed
C39_OnlyPagesProcessed ==
  Called =>
    /\ Range(selected_paths) = DOMAIN site_map.pages
    /\ \A k \in DOMAIN ptasks :
         LET u == ptasks[k].url
         IN  /\ u \in DOMAIN site_map.pages
             /\ u \notin OnlyTargets
             /\ \E c \in CallsFor(u) : calls[c].fetch = "ok"
             /\ site_map.pages[u].depth <= config.max_depth
             /\ ~config.allow_subdomains => Host(u) = Host(ROOT)

\* a session handed two pages or more to process_paths, their coroutines
\* are launched, and discovery left a link target without a page
C39_Witness ==
  /\ sched = "gather"
  /\ Len(selected_paths) >= 2
  /\ OnlyTargets # {}
  /\ \E k \in DOMAIN ptasks : ptasks[k].pc # "new"

====
